---- MODULE Spec2Model ----
(***************************************************************************)
(* Model of webapp/app.py: the AssetManager registry (one JSON document    *)
(* under "config:assets" in the key-value store, read and rewritten by     *)
(* get_assets / add_asset / toggle_asset / remove_asset) and the           *)
(* OptionsDataProvider queries over the option:* hashes.                   *)
(*                                                                         *)
(* Python strings are tuples of one-character strings, so that upper(),    *)
(* split(), replace(), endswith() and "in" are computed, not assumed.      *)
(***************************************************************************)
EXTENDS Integers, Sequences, FiniteSets, TLC

VARIABLES
    doc,             \* value under ASSETS_KEY: <<>> (no document) or <<mapping>>
    DEFAULT_ASSETS,  \* the class attribute AssetManager.DEFAULT_ASSETS (a mutable dict)
    pc,              \* per worker: where its current registry call stands
    call,            \* per worker: the call it runs (arguments and bookkeeping)
    assets,          \* per worker: the local name `assets` (a reference or a parsed copy)
    last,            \* the call that returned most recently, cleared when a call starts
    now,             \* datetime.now(), as a logical clock
    ncalls,          \* number of registry calls started so far
    store,           \* the option:* part of the key space, in scan order
    query,           \* the arguments of the most recent data call
    result,          \* what that call returned
    examined         \* the keys that call fetched with hgetall

vars == <<doc, DEFAULT_ASSETS, pc, call, assets, last, now, ncalls,
          store, query, result, examined>>

regVars == <<doc, DEFAULT_ASSETS, pc, call, assets, last, now, ncalls>>
dataVars == <<store, query, result, examined>>

(***************************************************************************)
(* Bounds of the model.                                                    *)
(***************************************************************************)
MaxCalls == 3        \* registry calls per behaviour, interleaved workers
MaxCallsSeq == 4     \* registry calls per behaviour, one call at a time
MaxCallsFair == 2    \* registry calls per behaviour, fair interleaved workers
MaxGets == 5         \* get_assets calls per behaviour when nothing else runs

Workers == {"w1", "w2"}

(***************************************************************************)
(* Strings.                                                                *)
(***************************************************************************)
LowerAlpha == <<"a","b","c","d","e","f","g","h","i","j","k","l","m",
                "n","o","p","q","r","s","t","u","v","w","x","y","z">>
UpperAlpha == <<"A","B","C","D","E","F","G","H","I","J","K","L","M",
                "N","O","P","Q","R","S","T","U","V","W","X","Y","Z">>

\* str.upper() on one character
UpperChar(c) ==
    IF \E i \in 1..Len(LowerAlpha) : LowerAlpha[i] = c
    THEN UpperAlpha[CHOOSE i \in 1..Len(LowerAlpha) : LowerAlpha[i] = c]
    ELSE c

\* str.upper()
upper(s) == [i \in 1..Len(s) |-> UpperChar(s[i])]

BTC == <<"B","T","C">>
ETH == <<"E","T","H">>
SOL == <<"S","O","L">>
XRP == <<"X","R","P">>
ADA == <<"A","D","A">>
btc == <<"b","t","c">>
xrp == <<"x","r","p">>

(***************************************************************************)
(* The registry.                                                           *)
(***************************************************************************)
\* the literal the class attribute is bound to when the class is created
DefaultAssetsLiteral ==
    (BTC :> [name |-> "Bitcoin", enabled |-> TRUE, order |-> 1]) @@
    (ETH :> [name |-> "Ethereum", enabled |-> TRUE, order |-> 2]) @@
    (SOL :> [name |-> "Solana", enabled |-> TRUE, order |-> 3])

DefaultSymbols == {BTC, ETH, SOL}

\* inputs of the calls
AddSymbols == {XRP, xrp, ADA, BTC, btc}
PathSymbols == {BTC, XRP, btc}
Names == {"Ripple"}

NoAssets == [alias |-> FALSE, val |-> <<>>]
NoCall == [op |-> "none"]

\* the dict the local name `assets` of worker w denotes
Assets(w) == IF assets[w].alias THEN DEFAULT_ASSETS ELSE assets[w].val

\* what get_assets() would return now, were it called
Registry == IF doc = <<>> THEN DEFAULT_ASSETS ELSE doc[1]

Calls ==
    {[op |-> "get_assets", symbol |-> <<>>, name |-> ""]}
    \cup {[op |-> "add_asset", symbol |-> s, name |-> n] : s \in AddSymbols, n \in Names}
    \cup {[op |-> "toggle_asset", symbol |-> s, name |-> ""] : s \in PathSymbols}
    \cup {[op |-> "remove_asset", symbol |-> s, name |-> ""] : s \in PathSymbols}

ConcCalls ==
    {c \in Calls : c.symbol \in {<<>>, BTC, XRP, btc} /\ (c.op = "add_asset" => c.symbol # BTC)
                    /\ (c.op # "add_asset" => c.symbol # btc)}

\* a stored document from an earlier run of the program
EarlierDoc ==
    DefaultAssetsLiteral @@
    (XRP :> [name |-> "Ripple", enabled |-> TRUE, order |-> 4, added_date |-> 0])

InitRegistry ==
    /\ doc \in {<<>>, <<DefaultAssetsLiteral>>, <<EarlierDoc>>}
    /\ DEFAULT_ASSETS = DefaultAssetsLiteral
    /\ pc = [w \in Workers |-> "idle"]
    /\ call = [w \in Workers |-> NoCall]
    /\ assets = [w \in Workers |-> NoAssets]
    /\ last = NoCall
    /\ now = 1
    /\ ncalls = 0

\* a request handler enters one of the four AssetManager methods
Begin(w, c) ==
    /\ UNCHANGED dataVars
    /\ pc[w] = "idle"
    /\ pc' = [pc EXCEPT ![w] = "get"]
    /\ call' = [call EXCEPT ![w] =
                   [op |-> c.op, symbol |-> c.symbol, name |-> c.name,
                    before |-> Registry, docBefore |-> doc,
                    found |-> FALSE, seen |-> <<>>, probe |-> <<>>,
                    seeded |-> "no", saved |-> "no", replaced |-> <<>>]]
    /\ last' = NoCall
    /\ ncalls' = ncalls + 1
    /\ UNCHANGED <<doc, DEFAULT_ASSETS, assets, now>>

\* the method returns value v
Return(w, c, v) ==
    /\ pc' = [pc EXCEPT ![w] = "idle"]
    /\ call' = [call EXCEPT ![w] = NoCall]
    /\ assets' = [assets EXCEPT ![w] = NoAssets]
    /\ last' = c @@ [ret |-> v]

\* redis_client.set inside save_assets: the write lands, or raises and is swallowed
DocAfterSet(value, ok) == IF ok THEN <<value>> ELSE doc

\* get_assets, line 45-47: read the document; parse it when there is one
get_assets_read(w) ==
    /\ UNCHANGED dataVars
    /\ pc[w] = "get"
    /\ IF doc # <<>>
       THEN LET c == [call[w] EXCEPT !.found = TRUE, !.seen = doc] IN
            IF c.op = "get_assets"
            THEN /\ Return(w, c, doc[1])
                 /\ UNCHANGED <<doc, DEFAULT_ASSETS, now, ncalls>>
            ELSE /\ assets' = [assets EXCEPT ![w] = [alias |-> FALSE, val |-> doc[1]]]
                 /\ call' = [call EXCEPT ![w] = c]
                 /\ pc' = [pc EXCEPT ![w] = "body"]
                 /\ UNCHANGED <<doc, DEFAULT_ASSETS, last, now, ncalls>>
       ELSE /\ pc' = [pc EXCEPT ![w] = "seed"]
            /\ UNCHANGED <<doc, DEFAULT_ASSETS, call, assets, last, now, ncalls>>

\* line 50 saving an empty dict instead of the defaults
seed_value_empty == <<>>

\* get_assets, line 50: the dict handed to save_assets
seed_value == DEFAULT_ASSETS

\* get_assets, line 50-51: save the defaults and return the class attribute itself
get_assets_seed(w) ==
    /\ UNCHANGED dataVars
    /\ pc[w] = "seed"
    /\ \E ok \in BOOLEAN :
          LET c == [call[w] EXCEPT !.seeded = IF ok THEN "ok" ELSE "failed",
                                   !.seen = <<DEFAULT_ASSETS>>,
                                   !.replaced = doc] IN
          /\ doc' = DocAfterSet(seed_value, ok)
          /\ IF c.op = "get_assets"
             THEN /\ Return(w, c, DEFAULT_ASSETS)
                  /\ UNCHANGED <<DEFAULT_ASSETS, now, ncalls>>
             ELSE /\ assets' = [assets EXCEPT ![w] = [alias |-> TRUE, val |-> <<>>]]
                  /\ call' = [call EXCEPT ![w] = c]
                  /\ pc' = [pc EXCEPT ![w] = "body"]
                  /\ UNCHANGED <<DEFAULT_ASSETS, last, now, ncalls>>

\* `assets[...] = ...`, `del assets[...]`: the dict the local name denotes changes
Mutate(w, value) ==
    IF assets[w].alias
    THEN /\ DEFAULT_ASSETS' = value
         /\ UNCHANGED assets
    ELSE /\ assets' = [assets EXCEPT ![w].val = value]
         /\ UNCHANGED DEFAULT_ASSETS

\* line 69 comparing the argument as given, without upper()
already_exists_as_given(a, symbol) == symbol \in DOMAIN a

\* add_asset, line 69
already_exists(a, symbol) == upper(symbol) \in DOMAIN a

\* what requests.get(url, params, timeout=5) can do
Responses ==
    {[raised |-> "no", retCode |-> rc, items |-> n] : rc \in {0, 10001}, n \in {0, 1}}
    \cup {[raised |-> e, retCode |-> 0, items |-> 0] : e \in {"ConnectionError", "Timeout"}}

\* add_asset, line 68-70; the request of line 97 leaves, and what the far end
\* does with it is settled
add_asset_check(w) ==
    /\ UNCHANGED dataVars
    /\ pc[w] = "body"
    /\ call[w].op = "add_asset"
    /\ IF already_exists(Assets(w), call[w].symbol)
       THEN /\ Return(w, call[w], "AlreadyExists")
            /\ UNCHANGED <<doc, DEFAULT_ASSETS, now, ncalls>>
       ELSE /\ pc' = [pc EXCEPT ![w] = "probe"]
            /\ \E resp \in Responses :
                  call' = [call EXCEPT ![w].probe = <<resp>>]
            /\ UNCHANGED <<doc, DEFAULT_ASSETS, assets, last, now, ncalls>>

\* line 100-102 without the retCode test
test_asset_result_any_code(resp) ==
    IF resp.raised # "no" THEN FALSE ELSE resp.items > 0

\* test_asset, line 90-105
test_asset_result(resp) ==
    IF resp.raised # "no" THEN FALSE
    ELSE IF resp.retCode = 0 THEN resp.items > 0
    ELSE FALSE

\* line 97 without timeout=5: a far end that stays silent is waited for
requests_get_returns_unless_silent(resp) == resp.raised # "Timeout"

\* line 97, requests.get(..., timeout=5): the call comes back whatever the far
\* end does, with a response or with an exception
requests_get_returns(resp) == TRUE

\* add_asset, line 73-74, with the call of test_asset; call[w].probe is what
\* the far end does with this request
test_asset(w) ==
    /\ UNCHANGED dataVars
    /\ pc[w] = "probe"
    /\ requests_get_returns(call[w].probe[1])
    /\ IF test_asset_result(call[w].probe[1])
       THEN /\ pc' = [pc EXCEPT ![w] = "insert"]
            /\ UNCHANGED <<doc, DEFAULT_ASSETS, call, assets, last, now, ncalls>>
       ELSE /\ Return(w, call[w], "NoInstrumentsAvailable")
            /\ UNCHANGED <<doc, DEFAULT_ASSETS, now, ncalls>>

\* line 80 with order = len(assets)
new_asset_order_len(a, name) ==
    [name |-> name, enabled |-> TRUE, order |-> Cardinality(DOMAIN a),
     added_date |-> now]

\* add_asset, line 77-82: the entry of the new asset
new_asset(a, name) ==
    [name |-> name, enabled |-> TRUE, order |-> Cardinality(DOMAIN a) + 1,
     added_date |-> now]

\* line 77 assigning into a fresh copy of the defaults instead of `assets`
with_new_asset_on_defaults(a, symbol, name) ==
    [s \in DOMAIN DefaultAssetsLiteral \cup {symbol} |->
        IF s = symbol THEN new_asset(a, name) ELSE DefaultAssetsLiteral[s]]

\* add_asset, line 77-82: `assets` after assets[symbol.upper()] = {...}
with_new_asset(a, symbol, name) ==
    [s \in DOMAIN a \cup {symbol} |->
        IF s = symbol THEN new_asset(a, name) ELSE a[s]]

\* add_asset, line 77-82
add_asset_insert(w) ==
    /\ UNCHANGED dataVars
    /\ pc[w] = "insert"
    /\ Mutate(w, with_new_asset(Assets(w), upper(call[w].symbol), call[w].name))
    /\ now' = now + 1
    /\ pc' = [pc EXCEPT ![w] = "save"]
    /\ UNCHANGED <<doc, call, last, ncalls>>

\* line 112 switching the asset off instead of negating the flag
toggled_off(a, symbol) == [a EXCEPT ![symbol].enabled = FALSE]

\* toggle_asset, line 112
toggled(a, symbol) == [a EXCEPT ![symbol].enabled = ~a[symbol].enabled]

\* toggle_asset, line 110-115
toggle_asset_body(w) ==
    /\ UNCHANGED dataVars
    /\ pc[w] = "body"
    /\ call[w].op = "toggle_asset"
    /\ IF call[w].symbol \in DOMAIN Assets(w)
       THEN /\ Mutate(w, toggled(Assets(w), call[w].symbol))
            /\ pc' = [pc EXCEPT ![w] = "save"]
            /\ UNCHANGED <<doc, call, last, now, ncalls>>
       ELSE /\ Return(w, call[w], FALSE)
            /\ UNCHANGED <<doc, DEFAULT_ASSETS, now, ncalls>>

\* line 121 without the test against DEFAULT_ASSETS
remove_allowed_any(a, symbol) == symbol \in DOMAIN a

\* remove_asset, line 121
remove_allowed(a, symbol) ==
    symbol \in DOMAIN a /\ symbol \notin DOMAIN DEFAULT_ASSETS

\* remove_asset, line 120-125
remove_asset_body(w) ==
    /\ UNCHANGED dataVars
    /\ pc[w] = "body"
    /\ call[w].op = "remove_asset"
    /\ IF remove_allowed(Assets(w), call[w].symbol)
       THEN /\ Mutate(w, [s \in DOMAIN Assets(w) \ {call[w].symbol} |-> Assets(w)[s]])
            /\ pc' = [pc EXCEPT ![w] = "save"]
            /\ UNCHANGED <<doc, call, last, now, ncalls>>
       ELSE /\ Return(w, call[w], FALSE)
            /\ UNCHANGED <<doc, DEFAULT_ASSETS, now, ncalls>>

\* what each method returns after its save_assets(assets)
ReturnValue(op) == IF op = "add_asset" THEN "success" ELSE TRUE

\* save_assets(assets) at line 84, 113, 123 and the return that follows it
save_assets(w) ==
    /\ UNCHANGED dataVars
    /\ pc[w] = "save"
    /\ \E ok \in BOOLEAN :
          /\ doc' = DocAfterSet(Assets(w), ok)
          /\ Return(w, [call[w] EXCEPT !.saved = IF ok THEN "ok" ELSE "failed",
                                          !.replaced = doc],
                    ReturnValue(call[w].op))
    /\ UNCHANGED <<DEFAULT_ASSETS, now, ncalls>>

\* interleaved workers (one request thread each)
StartCall(w) ==
    /\ ncalls < MaxCalls
    /\ \E c \in ConcCalls : Begin(w, c)

\* one call at a time
StartCallSeq(w) ==
    /\ ncalls < MaxCallsSeq
    /\ \A v \in Workers : pc[v] = "idle"
    /\ \E c \in Calls : Begin(w, c)

(***************************************************************************)
(* The option records and OptionsDataProvider.                             *)
(***************************************************************************)
CAP == 500           \* keys[:500]

MaxTail == 3         \* records of a store with nothing else in it
MaxBigTail == 2      \* records that follow CAP - 1 or CAP generated keys

Digits == <<"0","1","2","3","4","5","6","7","8","9">>
IsDigit(c) == \E d \in 1..10 : Digits[d] = c
DigitValue(c) == (CHOOSE d \in 1..10 : Digits[d] = c) - 1

\* str(n) for n >= 0
RECURSIVE Str(_)
Str(n) == IF n < 10 THEN <<Digits[n + 1]>> ELSE Str(n \div 10) \o <<Digits[(n % 10) + 1]>>

StartsWith(s, p) == Len(s) >= Len(p) /\ SubSeq(s, 1, Len(p)) = p

\* str.endswith
endswith(s, p) == Len(s) >= Len(p) /\ SubSeq(s, Len(s) - Len(p) + 1, Len(s)) = p

\* `p in s` for strings
contains(s, p) == \E i \in 1..(Len(s) - Len(p) + 1) : SubSeq(s, i, i + Len(p) - 1) = p

\* str.replace(old, ""): every occurrence of old, left to right, is dropped
RECURSIVE replace(_, _)
replace(s, old) ==
    IF ~contains(s, old) THEN s
    ELSE LET i == CHOOSE j \in 1..Len(s) :
                      /\ SubSeq(s, j, j + Len(old) - 1) = old
                      /\ \A k \in 1..(j - 1) : SubSeq(s, k, k + Len(old) - 1) # old
         IN SubSeq(s, 1, i - 1) \o replace(SubSeq(s, i + Len(old), Len(s)), old)

\* str.split("-")
RECURSIVE split(_)
split(s) ==
    IF \A i \in 1..Len(s) : s[i] # "-" THEN <<s>>
    ELSE LET i == CHOOSE j \in 1..Len(s) : s[j] = "-" /\ \A k \in 1..(j - 1) : s[k] # "-"
         IN <<SubSeq(s, 1, i - 1)>> \o split(SubSeq(s, i + 1, Len(s)))

\* float(text) on the stored texts of the model: decimal digits give their
\* number, anything else raises ValueError
RECURSIVE DecimalValue(_)
DecimalValue(t) ==
    IF t = <<>> THEN 0 ELSE 10 * DecimalValue(SubSeq(t, 1, Len(t) - 1)) + DigitValue(t[Len(t)])

float(t) ==
    IF t # <<>> /\ \A i \in 1..Len(t) : IsDigit(t[i])
    THEN [raised |-> FALSE, value |-> DecimalValue(t)]
    ELSE [raised |-> TRUE, value |-> 0]

option_ == <<"o","p","t","i","o","n",":">>
all == <<"a","l","l">>
call_ == <<"c","a","l","l">>
put_ == <<"p","u","t">>
NA == <<"N","/","A">>
JUN30 == <<"3","0","J","U","N","2","4">>
JUL1 == <<"1","J","U","L","2","4">>
dashC == <<"-","C">>
dashP == <<"-","P">>
dashCUSDT == <<"-","C","-","U","S","D","T">>
dashPUSDT == <<"-","P","-","U","S","D","T">>

\* an argument that was not given (None), or the text given
None == <<>>
Given(t) == <<t>>
\* Python truthiness of an Optional[str]
Truthy(x) == x # None /\ x[1] # <<>>

\* the view's numeric fields and the hash fields they are read from (line 170-180)
NumericFields ==
    <<[view |-> "last_price", stored |-> "last_price"],
      [view |-> "mark_price", stored |-> "mark_price"],
      [view |-> "volume_24h", stored |-> "volume_24h"],
      [view |-> "open_interest", stored |-> "open_interest"],
      [view |-> "delta", stored |-> "delta"],
      [view |-> "gamma", stored |-> "gamma"],
      [view |-> "theta", stored |-> "theta"],
      [view |-> "vega", stored |-> "vega"],
      [view |-> "iv", stored |-> "mark_iv"],
      [view |-> "underlying", stored |-> "underlying_price"],
      [view |-> "timestamp", stored |-> "timestamp"]>>

\* float(data.get(field, 0) or 0)
float_or_zero(data, field) ==
    IF field \notin DOMAIN data THEN [raised |-> FALSE, value |-> 0]
    ELSE IF data[field] = <<>> THEN [raised |-> FALSE, value |-> 0]
    ELSE float(data[field])

\* line 154 with == for !=
expiry_filter_drops_equal(parts, expiry) ==
    Truthy(expiry) /\ expiry[1] # all /\ Len(parts) > 1 /\ parts[2] = expiry[1]

\* line 153-155
expiry_filter_drops(parts, expiry) ==
    Truthy(expiry) /\ expiry[1] # all /\ Len(parts) > 1 /\ parts[2] # expiry[1]

\* get_options_data, line 157-162
type_filter_drops(symbol, option_type) ==
    /\ Truthy(option_type)
    /\ option_type[1] # all
    /\ \/ option_type[1] = call_ /\ ~endswith(symbol, dashC) /\ ~endswith(symbol, dashCUSDT)
       \/ option_type[1] = put_ /\ ~endswith(symbol, dashP) /\ ~endswith(symbol, dashPUSDT)

\* the dict with the strike taken one component too early
view_of_strike_early(symbol, parts, data) ==
    [symbol |-> symbol,
     expiry |-> IF Len(parts) > 1 THEN parts[2] ELSE NA,
     strike |-> IF Len(parts) > 1 THEN parts[2] ELSE NA,
     type |-> IF contains(symbol, dashC) THEN "Call" ELSE "Put",
     last_price |-> float_or_zero(data, "last_price").value,
     mark_price |-> float_or_zero(data, "mark_price").value,
     volume_24h |-> float_or_zero(data, "volume_24h").value,
     open_interest |-> float_or_zero(data, "open_interest").value,
     delta |-> float_or_zero(data, "delta").value,
     gamma |-> float_or_zero(data, "gamma").value,
     theta |-> float_or_zero(data, "theta").value,
     vega |-> float_or_zero(data, "vega").value,
     iv |-> float_or_zero(data, "mark_iv").value,
     underlying |-> float_or_zero(data, "underlying_price").value,
     timestamp |-> float_or_zero(data, "timestamp").value]

\* line 165-181: the dict appended for a record
view_of(symbol, parts, data) ==
    [symbol |-> symbol,
     expiry |-> IF Len(parts) > 1 THEN parts[2] ELSE NA,
     strike |-> IF Len(parts) > 2 THEN parts[3] ELSE NA,
     type |-> IF contains(symbol, dashC) THEN "Call" ELSE "Put",
     last_price |-> float_or_zero(data, "last_price").value,
     mark_price |-> float_or_zero(data, "mark_price").value,
     volume_24h |-> float_or_zero(data, "volume_24h").value,
     open_interest |-> float_or_zero(data, "open_interest").value,
     delta |-> float_or_zero(data, "delta").value,
     gamma |-> float_or_zero(data, "gamma").value,
     theta |-> float_or_zero(data, "theta").value,
     vega |-> float_or_zero(data, "vega").value,
     iv |-> float_or_zero(data, "mark_iv").value,
     underlying |-> float_or_zero(data, "underlying_price").value,
     timestamp |-> float_or_zero(data, "timestamp").value]

\* one of the float(...) calls of line 170-180 raises
view_raises(data) ==
    \E i \in 1..Len(NumericFields) : float_or_zero(data, NumericFields[i].stored).raised

\* line 142-183, one turn of the loop: what the key adds to options_data
row_of(entry, expiry, option_type) ==
    IF entry.data = <<>> THEN <<>>
    ELSE LET symbol == replace(entry.key, option_)
             parts == split(symbol)
         IN IF expiry_filter_drops(parts, expiry) THEN <<>>
            ELSE IF type_filter_drops(symbol, option_type) THEN <<>>
            ELSE IF view_raises(entry.data) THEN <<>>
            ELSE <<view_of(symbol, parts, entry.data)>>

\* line 140-183: options_data after the loop over the keys
rows_of(entries, expiry, option_type) ==
    LET row == [i \in 1..Len(entries) |-> row_of(entries[i], expiry, option_type)]
        kept == SelectSeq([i \in 1..Len(entries) |-> i], LAMBDA i : row[i] # <<>>)
    IN [j \in 1..Len(kept) |-> row[kept[j]][1]]

Max(S) == CHOOSE m \in S : \A x \in S : x <= m

\* list.sort(key=volume_24h, reverse=True): descending, equal keys keep their order
RECURSIVE sort_desc(_, _)
sort_desc(rows, volumes) ==
    IF volumes = {} THEN <<>>
    ELSE LET top == Max(volumes)
         IN SelectSeq(rows, LAMBDA r : r.volume_24h = top)
            \o sort_desc(rows, volumes \ {top})

\* line 186 as an ascending sort turned round
sort_by_volume_ascending_reversed(rows) ==
    sort_desc([i \in 1..Len(rows) |-> rows[Len(rows) + 1 - i]],
              {rows[i].volume_24h : i \in 1..Len(rows)})

\* line 186: options_data.sort(key=volume_24h, reverse=True), a stable sort
sort_by_volume(rows) == sort_desc(rows, {rows[i].volume_24h : i \in 1..Len(rows)})

\* the keys of the store: `fill` generated records first, then the tail
FillerKey(i) == option_ \o BTC \o <<"-">> \o JUL1 \o <<"-">> \o Str(1000 + i) \o dashP
FillerEntry(i, full) ==
    [key |-> FillerKey(i),
     data |-> IF full THEN [f \in {"volume_24h"} |-> <<"1">>] ELSE <<>>]
Entries(st) == [i \in 1..st.fill |-> FillerEntry(i, st.full)] \o st.tail

\* redis_client.keys("option:{asset}-*"), with the hash of each key
keys(st, asset) ==
    SelectSeq(Entries(st), LAMBDA e : StartsWith(e.key, option_ \o asset \o <<"-">>))

\* line 141 without the slice
capped_not(ks) == ks

\* keys[:500]
capped(ks) == SubSeq(ks, 1, IF Len(ks) < CAP THEN Len(ks) ELSE CAP)

\* get_options_data, line 136-188
options_data(st, asset, expiry, option_type) ==
    sort_by_volume(rows_of(capped(keys(st, asset)), expiry, option_type))

QueryAssets == {BTC, ETH}
ExpiryArgs == {None, Given(<<>>), Given(all), Given(JUN30), Given(JUL1)}
TypeArgs == {None, Given(all), Given(call_), Given(put_)}

\* one data call per behaviour: the calls keep nothing between them
get_options_data ==
    /\ UNCHANGED regVars
    /\ UNCHANGED store
    /\ query.op = "none"
    /\ \E asset \in QueryAssets, expiry \in ExpiryArgs, option_type \in TypeArgs :
          /\ query' = [op |-> "get_options_data", asset |-> asset,
                       expiry |-> expiry, option_type |-> option_type]
          /\ result' = options_data(store, asset, expiry, option_type)
          /\ examined' = Len(capped(keys(store, asset)))

\* the characters of the keys, by code point
CodePoints ==
    <<"-">> \o Digits \o <<":">> \o UpperAlpha \o <<"_">> \o LowerAlpha

ord(c) == CHOOSE i \in 1..Len(CodePoints) : CodePoints[i] = c

\* s < t for strings
str_lt(s, t) ==
    \E i \in 1..(Len(t)) :
        /\ \A k \in 1..(i - 1) : k <= Len(s) /\ s[k] = t[k]
        /\ \/ i > Len(s)
           \/ i <= Len(s) /\ ord(s[i]) < ord(t[i])

\* sorted(list(S)) for a set of strings
RECURSIVE sorted(_)
sorted(S) ==
    IF S = {} THEN <<>>
    ELSE LET least == CHOOSE x \in S : \A y \in S \ {x} : str_lt(x, y)
         IN <<least>> \o sorted(S \ {least})

\* line 197 going over keys[:500] only
expiry_keys_capped(ks) == capped(ks)

\* get_expiries, line 197: the loop is over all the keys
expiry_keys(ks) == ks

\* get_expiries, line 196-201: the set built by the loop
expiries_of(ks) ==
    LET parts == [i \in 1..Len(ks) |-> split(replace(ks[i].key, option_))]
    IN {parts[i][2] : i \in {k \in 1..Len(ks) : Len(parts[k]) > 1}}

\* get_expiries, line 191-203
get_expiries ==
    /\ UNCHANGED regVars
    /\ UNCHANGED store
    /\ query.op = "none"
    /\ \E asset \in QueryAssets :
          /\ query' = [op |-> "get_expiries", asset |-> asset,
                       expiry |-> None, option_type |-> None]
          /\ result' = sorted(expiries_of(expiry_keys(keys(store, asset))))
          /\ examined' = Len(keys(store, asset))

Key(asset, expiry, rest) == option_ \o asset \o <<"-">> \o expiry \o <<"-">> \o rest
Fields(volume) == [f \in {"volume_24h"} |-> volume]

\* the records a store's tail is drawn from
Catalogue ==
    {[key |-> Key(BTC, JUN30, <<"1","0","0","-","C">>),
      data |-> [f \in {"volume_24h", "last_price"} |-> IF f = "volume_24h" THEN <<"1","0">> ELSE <<"5">>]],
     [key |-> Key(BTC, JUN30, <<"2","0","0","-","C">>), data |-> Fields(<<"5","0">>)],
     [key |-> Key(BTC, JUN30, <<"3","0","0","-","C","-","U","S","D","T">>),
      data |-> [f \in {"volume_24h", "mark_iv"} |-> IF f = "volume_24h" THEN <<"3","0">> ELSE <<>>]],
     [key |-> Key(BTC, JUL1, <<"1","0","0","-","C">>), data |-> Fields(<<"5","0">>)],
     [key |-> Key(BTC, JUN30, <<"1","0","0","-","P">>), data |-> Fields(<<"1","0">>)],
     [key |-> Key(BTC, JUN30, <<"4","0","0","-","C">>), data |-> Fields(<<"a","b","c">>)],
     [key |-> Key(BTC, JUN30, <<"5","0","0","-","C">>), data |-> <<>>],
     [key |-> Key(ETH, JUN30, <<"1","0","0","-","C">>), data |-> Fields(<<"1","0">>)],
     [key |-> Key(BTC, JUN30, <<"C","1","-","P">>), data |-> Fields(<<"3","0">>)],
     [key |-> option_ \o BTC \o <<"-","X">>, data |-> [f \in {"last_price"} |-> <<"7">>]]}

\* the records that follow the generated keys of a big store
BigCatalogue ==
    {e \in Catalogue : e.key \in {Key(BTC, JUN30, <<"2","0","0","-","C">>),
                                  Key(BTC, JUL1, <<"1","0","0","-","C">>),
                                  Key(BTC, JUN30, <<"4","0","0","-","C">>)}}

\* sequences of up to n records of C with different keys
RECURSIVE Tails(_, _)
Tails(C, n) ==
    IF n = 0 THEN {<<>>}
    ELSE Tails(C, n - 1) \cup
         {Append(t, e) : t \in {u \in Tails(C, n - 1) : Len(u) = n - 1},
                         e \in C}

DistinctKeys(t) == \A i, j \in 1..Len(t) : i # j => t[i].key # t[j].key

Stores ==
    {[fill |-> 0, full |-> FALSE, tail |-> t] :
        t \in {u \in Tails(Catalogue, MaxTail) : DistinctKeys(u)}}
    \cup
    {[fill |-> n, full |-> f, tail |-> t] :
        n \in {CAP - 1, CAP}, f \in BOOLEAN,
        t \in {u \in Tails(BigCatalogue, MaxBigTail) : DistinctKeys(u)}}

InitData ==
    /\ store = [fill |-> 0, full |-> FALSE, tail |-> <<>>]
    /\ query = [op |-> "none"]
    /\ result = <<>>
    /\ examined = 0

InitQuery ==
    /\ store \in Stores
    /\ query = [op |-> "none"]
    /\ result = <<>>
    /\ examined = 0
    /\ doc = <<>>
    /\ DEFAULT_ASSETS = DefaultAssetsLiteral
    /\ pc = [w \in Workers |-> "idle"]
    /\ call = [w \in Workers |-> NoCall]
    /\ assets = [w \in Workers |-> NoAssets]
    /\ last = NoCall
    /\ now = 1
    /\ ncalls = 0

Init == InitRegistry /\ InitData

Next ==
    \E w \in Workers :
        \/ StartCall(w)
        \/ get_assets_read(w)
        \/ get_assets_seed(w)
        \/ add_asset_check(w)
        \/ test_asset(w)
        \/ add_asset_insert(w)
        \/ toggle_asset_body(w)
        \/ remove_asset_body(w)
        \/ save_assets(w)

Spec == Init /\ [][Next]_vars

NextSeq ==
    \E w \in Workers :
        \/ StartCallSeq(w)
        \/ get_assets_read(w)
        \/ get_assets_seed(w)
        \/ add_asset_check(w)
        \/ test_asset(w)
        \/ add_asset_insert(w)
        \/ toggle_asset_body(w)
        \/ remove_asset_body(w)
        \/ save_assets(w)

SpecSeq == Init /\ [][NextSeq]_vars

\* the steps of the call worker w runs
Step(w) ==
    \/ get_assets_read(w)
    \/ get_assets_seed(w)
    \/ add_asset_check(w)
    \/ test_asset(w)
    \/ add_asset_insert(w)
    \/ toggle_asset_body(w)
    \/ remove_asset_body(w)
    \/ save_assets(w)

StartCallFair(w) ==
    /\ ncalls < MaxCallsFair
    /\ \E c \in ConcCalls : Begin(w, c)

NextFair == \E w \in Workers : StartCallFair(w) \/ Step(w)

\* interleaved workers, each request thread scheduled again and again
SpecFair == Init /\ [][NextFair]_vars /\ \A w \in Workers : WF_vars(Step(w))

\* get_assets calls only, interleaved, on a store without the document
StartGet(w) ==
    /\ ncalls < MaxGets
    /\ Begin(w, [op |-> "get_assets", symbol |-> <<>>, name |-> ""])

InitGets == Init /\ doc = <<>>

NextGets ==
    \E w \in Workers :
        \/ StartGet(w)
        \/ get_assets_read(w)
        \/ get_assets_seed(w)

SpecGets == InitGets /\ [][NextGets]_vars

NextData == get_options_data \/ get_expiries

SpecData == InitQuery /\ [][NextData]_vars

(***************************************************************************)
(* Registry claims.  `last` is the call that has just returned: its        *)
(* arguments, the registry and the document when it started (before,       *)
(* docBefore), whether its get_assets found the document (found), the      *)
(* probe response it got (probe), and how its writes went (seeded, saved). *)
(***************************************************************************)
Returned(op) == last.op = op

\* every document write of the call that just returned was accepted by the store
WritesLanded == last.seeded # "failed" /\ last.saved # "failed"

\* worker w takes a step of a remove_asset call on a default symbol that found the document
RemoveDefaultStep(w) ==
    /\ pc[w] # "idle"
    /\ pc'[w] # pc[w]
    /\ call[w].op = "remove_asset"
    /\ call[w].symbol \in DefaultSymbols
    /\ call[w].found

C2_RemoveAdded ==
    (/\ Returned("remove_asset")
     /\ last.symbol \notin DefaultSymbols
     /\ last.symbol \in DOMAIN last.before
     /\ WritesLanded)
    => (last.ret = TRUE /\ last.symbol \notin DOMAIN Registry)

\* C3 (as claimed): a get_assets that finds no document returns exactly the
\* three seed assets and, when its write lands, the document is exactly them;
\* a get_assets that finds the document returns it and writes nothing.
C3_SeedOnEmpty ==
    Returned("get_assets") =>
        IF last.found
        THEN last.ret = last.docBefore[1] /\ doc = last.docBefore /\ last.seeded = "no"
        ELSE /\ last.ret = DefaultAssetsLiteral
             /\ last.seeded = "ok" => doc = <<DefaultAssetsLiteral>>

\* C4: add_asset whose uppercased symbol is a key of the registry returns the
\* AlreadyExists error without consulting the probe, and registry and
\* document are as before the call.
C4_AlreadyExists ==
    (Returned("add_asset") /\ upper(last.symbol) \in DOMAIN last.before)
    => /\ last.ret = "AlreadyExists"
       /\ last.probe = <<>>
       /\ last.saved = "no"
       /\ Registry = last.before
       /\ last.docBefore # <<>> => doc = last.docBefore

\* add_asset("btc", ...) was refused on an existing document
C4_Witness ==
    /\ Returned("add_asset") /\ last.symbol = btc
    /\ last.ret = "AlreadyExists" /\ last.docBefore # <<>>

\* the probe gave no instrument: it raised, timed out, answered a non-zero
\* retCode or an empty list
ProbeFailed(resp) == resp.raised # "no" \/ resp.retCode # 0 \/ resp.items = 0

\* C5: add_asset of a symbol not in the registry whose probe raises, times
\* out, answers a non-success code or an empty list returns the
\* NoInstrumentsAvailable error, and the registered assets and their fields
\* are as before the call.
C5_NoInstruments ==
    (/\ Returned("add_asset")
     /\ upper(last.symbol) \notin DOMAIN last.before
     /\ last.probe # <<>>
     /\ ProbeFailed(last.probe[1]))
    => /\ last.ret = "NoInstrumentsAvailable"
       /\ last.saved = "no"
       /\ Registry = last.before
       /\ last.docBefore # <<>> => doc = last.docBefore

\* add_asset("xrp", ...) was refused after a non-zero retCode that came with a
\* non-empty list
C5_Witness ==
    /\ Returned("add_asset") /\ last.symbol = xrp
    /\ last.probe # <<>> /\ last.probe[1].retCode # 0 /\ last.probe[1].items > 0
    /\ last.ret = "NoInstrumentsAvailable"

\* the document holds the asset add_asset was called for, enabled, ordered
\* after the assets there were, and those unchanged
AddedToDocument ==
    /\ doc # <<>>
    /\ upper(last.symbol) \in DOMAIN doc[1]
    /\ doc[1][upper(last.symbol)].enabled = TRUE
    /\ doc[1][upper(last.symbol)].order = Cardinality(DOMAIN last.before) + 1
    /\ doc[1][upper(last.symbol)].name = last.name
    /\ DOMAIN doc[1] = DOMAIN last.before \cup {upper(last.symbol)}
    /\ \A s \in DOMAIN last.before : doc[1][s] = last.before[s]

Target(c) == IF c.op = "add_asset" THEN upper(c.symbol) ELSE c.symbol

\* entry s of document d is not carried over into document e
NotKept(d, e, s) == s \notin DOMAIN e \/ e[s] # d[s]

\* C12: updates are lost through stale copies and only through them: a save
\* of a call that parsed the document drops or changes an entry other than
\* the call's own only when that entry was written after the call read it;
\* and a state is reached where an add that returned success is gone from
\* the document without any remove.
C12_LostUpdates ==
    [][\A w \in Workers :
          (/\ pc[w] = "save" /\ pc'[w] = "idle"
           /\ call[w].found
           /\ doc # <<>> /\ doc' # doc)
          => \A s \in DOMAIN doc[1] :
                (s # Target(call[w]) /\ NotKept(doc[1], doc'[1], s))
                => (s \notin DOMAIN call[w].seen[1] \/ call[w].seen[1][s] # doc[1][s])]_vars

\* two calls in all, add(XRP) and toggle(BTC): the toggle started on a
\* document without XRP, its save replaced a document holding XRP, which the
\* add had written before returning success, and XRP is no longer there
C12_Witness ==
    /\ \A w \in Workers : pc[w] = "idle"
    /\ ncalls = 2
    /\ last.op = "toggle_asset" /\ last.symbol = BTC /\ last.ret = TRUE
    /\ last.saved = "ok"
    /\ last.docBefore # <<>> /\ XRP \notin DOMAIN last.docBefore[1]
    /\ last.replaced # <<>> /\ XRP \in DOMAIN last.replaced[1]
    /\ last.replaced[1][XRP].name = "Ripple"
    /\ doc # <<>> /\ XRP \notin DOMAIN doc[1]

\* C13: with get_assets calls only, on a store that starts without the
\* document, every call returns exactly the three seed assets, the document
\* is absent or exactly the seed mapping at every moment, and it is the seed
\* mapping once a call's write was accepted.
C13_ConcurrentSeeding ==
    /\ doc \in {<<>>, <<DefaultAssetsLiteral>>}
    /\ DEFAULT_ASSETS = DefaultAssetsLiteral
    /\ Returned("get_assets") =>
          /\ last.ret = DefaultAssetsLiteral
          /\ DOMAIN last.ret = DefaultSymbols
          /\ last.seeded = "ok" => doc = <<DefaultAssetsLiteral>>
    /\ \A w \in Workers : call[w].op \in {"none", "get_assets"}

\* a call that found no document wrote the seeds over the seeds another call
\* had written in between, and returned the three seeds
C13_Witness ==
    /\ Returned("get_assets")
    /\ ~last.found /\ last.seeded = "ok"
    /\ last.docBefore = <<>>
    /\ last.replaced = <<DefaultAssetsLiteral>>
    /\ last.ret = DefaultAssetsLiteral
    /\ doc = <<DefaultAssetsLiteral>>

\* C14 (as claimed): the seeding write of get_assets never replaces a
\* document that is in the store at the moment of the write by a different
\* one (the defaults being the three seeds, as they are until a call that
\* found no document changes them).
C14_SeedOnlyIfAbsent ==
    [][\A w \in Workers :
          (/\ pc[w] = "seed" /\ pc'[w] # "seed"
           /\ DEFAULT_ASSETS = DefaultAssetsLiteral
           /\ doc # <<>>)
          => doc' = doc]_vars

AddOutcomes == {"success", "AlreadyExists", "NoInstrumentsAvailable"}

\* C16: every add_asset call that has started returns, whatever the far end
\* of the probe does, and what it returns is one of success, AlreadyExists
\* and NoInstrumentsAvailable.
C16_AddCompletes ==
    /\ [](Returned("add_asset") => last.ret \in AddOutcomes)
    /\ \A w \in Workers :
          (call[w].op = "add_asset") ~> (pc[w] = "idle")

\* the far end of the probe stayed silent and the call came back with
\* NoInstrumentsAvailable
C16_Witness ==
    /\ Returned("add_asset")
    /\ last.probe # <<>> /\ last.probe[1].raised = "Timeout"
    /\ last.ret = "NoInstrumentsAvailable"

OrdersDistinct(a) ==
    \A s, t \in DOMAIN a : s # t => a[s].order # a[t].order

\* the orders are 1, 2, ..., len(a)
OrdersDense(a) ==
    {a[s].order : s \in DOMAIN a} = 1..Cardinality(DOMAIN a)

\* C19 (as claimed): with one call at a time, whenever no call runs the orders
\* of the assets of the registry are pairwise distinct.
C19_OrdersDistinct ==
    (\A w \in Workers : pc[w] = "idle") => OrdersDistinct(Registry)

\* C19 (amended): with one call at a time, an add_asset that returns success
\* on a registry whose orders were 1..n leaves a registry whose orders are
\* 1..n+1 when its write was accepted, pairwise distinct in either case.
C19_AddKeepsOrdersDense ==
    (/\ Returned("add_asset") /\ last.ret = "success"
     /\ OrdersDense(last.before))
    => /\ OrdersDistinct(Registry)
       /\ OrdersDense(Registry)
       /\ last.saved = "ok" =>
             Cardinality(DOMAIN Registry) = Cardinality(DOMAIN last.before) + 1

\* a fourth and a fifth asset were added one after the other
C19_Witness ==
    /\ Returned("add_asset") /\ last.ret = "success" /\ last.saved = "ok"
    /\ OrdersDense(last.before)
    /\ Cardinality(DOMAIN last.before) = 4
    /\ Cardinality(DOMAIN Registry) = 5
    /\ {Registry[s].order : s \in DOMAIN Registry} = 1..5

(***************************************************************************)
(* Data claims.  `query` holds the arguments of the call that returned     *)
(* `result`; `examined` is the number of keys it fetched.                  *)
(***************************************************************************)
Queried == query.op = "get_options_data"

Descending(rows) ==
    \A i \in 1..(Len(rows) - 1) : rows[i].volume_24h >= rows[i + 1].volume_24h

OnlyCallsOf(rows, expiry) ==
    \A i \in 1..Len(rows) : rows[i].expiry = expiry /\ rows[i].type = "Call"

\* C8 (as claimed): get_options_data(asset, expiry=E, option_type="call") with
\* E other than "all" returns only records whose expiry component is E and
\* whose kind is Call, by non-increasing volume_24h.
C8_CallsOfAnyExpiry ==
    (/\ Queried
     /\ query.expiry # None /\ query.expiry[1] # all
     /\ query.option_type = Given(call_))
    => (OnlyCallsOf(result, query.expiry[1]) /\ Descending(result))

\* C8 (amended): the same for E other than "all" and other than the empty
\* text (an empty expiry argument filters nothing).
C8_CallsOfExpiry ==
    (/\ Queried
     /\ query.expiry # None /\ query.expiry[1] # all /\ query.expiry[1] # <<>>
     /\ query.option_type = Given(call_))
    => (OnlyCallsOf(result, query.expiry[1]) /\ Descending(result))

\* three calls of 30JUN24 scanned with volumes 10, 50, 30 came back as 50, 30, 10
C8_Witness ==
    /\ Queried /\ query.expiry = Given(JUN30) /\ query.option_type = Given(call_)
    /\ Len(store.tail) = 3
    /\ \A i \in 1..3 : "volume_24h" \in DOMAIN store.tail[i].data
    /\ store.tail[1].data["volume_24h"] = <<"1","0">>
    /\ store.tail[2].data["volume_24h"] = <<"5","0">>
    /\ store.tail[3].data["volume_24h"] = <<"3","0">>
    /\ Len(result) = 3
    /\ result[1].volume_24h = 50 /\ result[2].volume_24h = 30 /\ result[3].volume_24h = 10

\* C9: whatever the store holds and whatever the filters, get_options_data
\* fetches at most CAP keys, returns at most CAP records, and returns no
\* record of a key behind the first CAP keys of the scan.
C9_ScanCap ==
    Queried =>
        /\ examined <= CAP
        /\ Len(result) <= CAP
        /\ LET ks == keys(store, query.asset)
           IN \A i \in (CAP + 1)..Len(ks) : \A j \in 1..Len(result) :
                  result[j].symbol # replace(ks[i].key, option_)

\* CAP records came back from a scan of more than CAP keys, the ones behind
\* the cap passing the filters too
C9_Witness ==
    /\ Queried /\ query.expiry = None /\ query.option_type = None
    /\ Len(keys(store, query.asset)) > CAP
    /\ Len(store.tail) > 0
    /\ store.tail[Len(store.tail)].data # <<>>
    /\ ~view_raises(store.tail[Len(store.tail)].data)
    /\ examined = CAP
    /\ Len(result) = CAP

\* the stored number of a field, zero when it is absent, empty or not a number
NumberOrZero(data, field) ==
    IF field \in DOMAIN data /\ ~float(data[field]).raised
    THEN float(data[field]).value
    ELSE 0

\* C10 (as claimed): every key within the cap whose field map is not empty and
\* that passes the expiry and type filters has its view in the result, each
\* numeric field the stored number, or zero when the stored text is absent,
\* empty or not a number.
C10_MalformedIsZero ==
    Queried =>
        LET ks == capped(keys(store, query.asset))
        IN \A i \in 1..Len(ks) :
              LET symbol == replace(ks[i].key, option_)
              IN (/\ ks[i].data # <<>>
                  /\ ~expiry_filter_drops(split(symbol), query.expiry)
                  /\ ~type_filter_drops(symbol, query.option_type))
                 => \E j \in 1..Len(result) :
                        /\ result[j].symbol = symbol
                        /\ \A f \in 1..Len(NumericFields) :
                               result[j][NumericFields[f].view]
                                   = NumberOrZero(ks[i].data, NumericFields[f].stored)

\* the text a view reports under a field; the numeric fields are the results
\* of float(...) and report no text
NoText == <<"float">>
ViewText(view, field) ==
    IF \E f \in 1..Len(NumericFields) : NumericFields[f].view = field
    THEN NoText
    ELSE view[field]

\* the i-th dash-separated component of a symbol, "N/A" when it has fewer
ComponentOrNA(symbol, i) ==
    IF Len(split(symbol)) >= i THEN split(symbol)[i] ELSE NA

Symbols(rows) == {rows[j].symbol : j \in 1..Len(rows)}
OfKind(rows, kind) == {rows[j].symbol : j \in {k \in 1..Len(rows) : rows[k].type = kind}}

\* C15 (as claimed): with the asset and the expiry argument of a call with
\* type "all", type "put" returns exactly the records reported as Put and
\* type "call" exactly those reported as Call, so every record of the call is
\* returned by exactly one of the two.
C15_FilterMatchesKind ==
    (Queried /\ query.option_type = Given(all)) =>
        LET calls == options_data(store, query.asset, query.expiry, Given(call_))
            puts == options_data(store, query.asset, query.expiry, Given(put_))
        IN /\ Symbols(puts) = OfKind(result, "Put")
           /\ Symbols(calls) = OfKind(result, "Call")
           /\ Symbols(result) = Symbols(calls) \cup Symbols(puts)
           /\ Symbols(calls) \cap Symbols(puts) = {}

\* C17: get_expiries(asset) returns, strictly ascending, the second components
\* of all the keys that match the asset prefix, those behind the first CAP
\* keys too; and every expiry a get_options_data call reports is one of the
\* values get_expiries returns for the same store and asset.
C17_Expiries ==
    /\ query.op = "get_expiries" =>
          LET ks == keys(store, query.asset)
          IN /\ \A i \in 1..(Len(result) - 1) : str_lt(result[i], result[i + 1])
             /\ {result[i] : i \in 1..Len(result)}
                   = {split(replace(ks[i].key, option_))[2] : i \in 1..Len(ks)}
             /\ examined = Len(ks)
    /\ Queried =>
          LET listed == sorted(expiries_of(expiry_keys(keys(store, query.asset))))
          IN \A j \in 1..Len(result) :
                \E i \in 1..Len(listed) : listed[i] = result[j].expiry

\* more than CAP keys, the only one of 30JUN24 behind the cap: both expiries
\* are listed, 1JUL24 first
C17_Witness ==
    /\ query.op = "get_expiries"
    /\ examined > CAP
    /\ store.fill = CAP
    /\ result = <<JUL1, JUN30>>

\* C18: the records of the result with the same volume_24h are in the order
\* of their keys in the scan.
C18_StableSort ==
    Queried =>
        LET ks == capped(keys(store, query.asset))
            scan == [i \in 1..Len(ks) |-> replace(ks[i].key, option_)]
        IN \A v \in {result[j].volume_24h : j \in 1..Len(result)} :
              LET group == SelectSeq(result, LAMBDA r : r.volume_24h = v)
                  names == Symbols(group)
              IN [k \in 1..Len(group) |-> group[k].symbol]
                    = SelectSeq(scan, LAMBDA x : x \in names)

\* scanned with volumes 10, 50, 10: the record of volume 50 came first, the
\* two of volume 10 after it in scan order
C18_Witness ==
    /\ Queried /\ query.expiry = None /\ query.option_type = None
    /\ Len(store.tail) = 3 /\ store.fill = 0
    /\ Len(result) = 3
    /\ result[1].volume_24h = 50 /\ result[2].volume_24h = 10 /\ result[3].volume_24h = 10
    /\ result[1].symbol = replace(store.tail[2].key, option_)
    /\ result[2].symbol = replace(store.tail[1].key, option_)
    /\ result[3].symbol = replace(store.tail[3].key, option_)

====
